---- MODULE Spec2Model ----
(***************************************************************************)
(* A model of vite-rs:                                                     *)
(*   - the dev process supervisor (crates/vite-rs-dev-server/src/lib.rs),  *)
(*   - the manifest indexer and the static store it generates             *)
(*     (crates/vite-rs-embed-macro/src/vite/mod.rs, PROD build),           *)
(*   - the content negotiator (crates/vite-rs-axum-0-8/src/vite_serve.rs). *)
(***************************************************************************)
EXTENDS Integers, Sequences, FiniteSets, TLC

(***************************************************************************)
(* Bounds.                                                                 *)
(***************************************************************************)
\* the number of dev processes the supervisor launches in one run
MaxChildren == 2

(***************************************************************************)
(* The dev process supervisor.                                             *)
(***************************************************************************)
\* application threads that call start_dev_server / stop_dev_server and
\* drop guards
AppThreads == {"t1", "t2"}
\* the thread on which the ctrlc crate runs the interrupt handler
SigThread == "sig"
Threads == AppThreads \cup {SigThread}

\* the host:port pairs start_dev_server is called with
Addrs == {[host |-> "localhost", port |-> 5173], [host |-> "0.0.0.0", port |-> 5174]}

\* Option::None of the slot and of a thread's locals
NoChild == 0

VARIABLES
    VITE_PROCESS,   \* the process-wide slot: NoChild or the registered child
    alive,          \* the launched processes that are running
    listening,      \* the running processes that have bound their port
    args,           \* args[c]: the host and port child c was launched with
    kills,          \* kills[c]: how many times kill() was called on child c
    guards,         \* the children whose returned guard the caller still owns
    handler,        \* TRUE once the Ctrl-C handler is installed
    exited,         \* TRUE once the handler has called std::process::exit
    th              \* th[t]: thread t's position and locals

supVars == <<VITE_PROCESS, alive, listening, args, kills, guards, handler, exited, th>>

\* the embedded store and the server built on it
VARIABLES
    built,          \* TRUE once generate_rust_code has produced the tables
    output_dir,     \* the files of the output directory, in the walk's order
    unreadable_files, \* the files FileEntry::new fails on
    vite_manifest,  \* .vite/manifest.json
    assets,         \* the generated tables ALIASES, ENTRIES and ITEMS
    cache_strategy, \* ViteServe.cache_strategy
    call,           \* the last get or serve call and what it returned
    prev            \* the serve call before a revalidation

srvVars == <<built, output_dir, unreadable_files, vite_manifest, assets, cache_strategy, call, prev>>

Children == 1..Len(args)

NoAddr == [host |-> "", port |-> 0]

IdleThread ==
    [pc |-> "idle", op |-> "none", child |-> NoChild, original |-> NoChild,
     addr |-> NoAddr, reg |-> FALSE, seen |-> NoChild, locked |-> FALSE]

SupInit ==
    /\ VITE_PROCESS = NoChild
    /\ alive = {}
    /\ listening = {}
    /\ args = <<>>
    /\ kills = <<>>
    /\ guards = {}
    /\ handler = FALSE
    /\ exited = FALSE
    /\ th = [t \in Threads |-> IdleThread]

\* util::is_port_free(port): nothing listens on the port
is_port_free(port) == \A c \in listening : args[c].port # port

\* GroupChild::kill(): the whole process group of the child is killed
KillChild(c) ==
    /\ alive' = alive \ {c}
    /\ listening' = listening \ {c}
    /\ kills' = [kills EXCEPT ![c] = @ + 1]

\* where control goes when the outermost unset_dev_server of the current
\* operation returns
AfterUnset(t) ==
    CASE th[t].op = "start" -> "ctrlc"
      [] th[t].op = "sigint" -> "exit"
      [] OTHER -> "idle"

Running(t) == ~exited /\ th[t].pc # "panic"

\* the slot mutex is held: some thread owns a MutexGuard of VITE_PROCESS
SlotLocked == \E u \in Threads : th[u].locked

\* a port check made after the launch: the child is spawned, then the call
\* panics when the port is taken
start_check_late(t, host, port, reg) ==
    /\ Running(t)
    /\ t \in AppThreads
    /\ th[t].pc = "idle"
    /\ Len(args) + Cardinality({u \in Threads : th[u].pc = "spawn"}) < MaxChildren
    /\ IF is_port_free(port)
         THEN /\ th' = [th EXCEPT ![t] = [IdleThread EXCEPT !.pc = "spawn", !.op = "start",
                                          !.addr = [host |-> host, port |-> port],
                                          !.reg = reg, !.seen = VITE_PROCESS]]
              /\ UNCHANGED <<alive, args, kills>>
         ELSE /\ th' = [th EXCEPT ![t] = [IdleThread EXCEPT !.pc = "panic", !.op = "start",
                                          !.addr = [host |-> host, port |-> port]]]
              /\ args' = Append(args, [host |-> host, port |-> port])
              /\ kills' = Append(kills, 0)
              /\ alive' = alive \cup {Len(args) + 1}
    /\ UNCHANGED <<VITE_PROCESS, listening, guards, handler, exited, srvVars>>

\* start_dev_server, the port check: panics before any effect when the port
\* is taken
start_check(t, host, port, reg) ==
    /\ Running(t)
    /\ t \in AppThreads
    /\ th[t].pc = "idle"
    /\ Len(args) + Cardinality({u \in Threads : th[u].pc = "spawn"}) < MaxChildren
    /\ IF is_port_free(port)
         THEN th' = [th EXCEPT ![t] = [IdleThread EXCEPT !.pc = "spawn", !.op = "start",
                                          !.addr = [host |-> host, port |-> port],
                                          !.reg = reg, !.seen = VITE_PROCESS]]
         ELSE th' = [th EXCEPT ![t] = [IdleThread EXCEPT !.pc = "panic", !.op = "start",
                                          !.addr = [host |-> host, port |-> port]]]
    /\ UNCHANGED <<VITE_PROCESS, alive, listening, args, kills, guards, handler, exited, srvVars>>

\* start_dev_server, group_spawn of `npx vite --host host --port port --strictPort`
start_spawn(t) ==
    /\ Running(t)
    /\ th[t].pc = "spawn"
    /\ LET c == Len(args) + 1 IN
        /\ args' = Append(args, th[t].addr)
        /\ kills' = Append(kills, 0)
        /\ alive' = alive \cup {c}
        /\ th' = [th EXCEPT ![t].pc = "set_replace", ![t].child = c]
    /\ UNCHANGED <<VITE_PROCESS, listening, guards, handler, exited, srvVars>>

\* set_dev_server, line 29: VITE_PROCESS.lock() waits for the slot mutex, and
\* replace(process) puts the new handle in the slot
set_replace(t) ==
    /\ Running(t)
    /\ th[t].pc = "set_replace"
    /\ ~SlotLocked
    /\ VITE_PROCESS' = th[t].child
    /\ th' = [th EXCEPT ![t].original = VITE_PROCESS, ![t].locked = TRUE,
                        ![t].pc = "set_unlock"]
    /\ UNCHANGED <<alive, listening, args, kills, guards, handler, exited, srvVars>>

\* a set_dev_server whose MutexGuard is bound to a local and lives to the end
\* of the function
set_unlock_at_return(t) ==
    /\ Running(t)
    /\ th[t].pc = "set_unlock"
    /\ th' = [th EXCEPT ![t].pc = IF th[t].original # NoChild THEN "set_kill" ELSE "ctrlc"]
    /\ UNCHANGED <<VITE_PROCESS, alive, listening, args, kills, guards, handler, exited, srvVars>>

\* set_dev_server, the end of the statement on line 29: the MutexGuard is a
\* temporary and is dropped there, which unlocks the slot
set_unlock(t) ==
    /\ Running(t)
    /\ th[t].pc = "set_unlock"
    /\ th' = [th EXCEPT ![t].locked = FALSE,
                        ![t].pc = IF th[t].original # NoChild THEN "set_kill" ELSE "ctrlc"]
    /\ UNCHANGED <<VITE_PROCESS, alive, listening, args, kills, guards, handler, exited, srvVars>>

\* set_dev_server, lines 30-38: the displaced child is killed; the handle
\* original.unwrap() is a temporary, dropped at the end of the statement, and
\* its Drop calls unset_dev_server
set_kill(t) ==
    /\ Running(t)
    /\ th[t].pc = "set_kill"
    /\ KillChild(th[t].original)
    /\ th' = [th EXCEPT ![t].pc = "unset_take", ![t].original = NoChild]
    /\ UNCHANGED <<VITE_PROCESS, args, guards, handler, exited, srvVars>>

\* an unset_dev_server that reads the slot and leaves the handle in it
unset_take_keep(t) ==
    /\ Running(t)
    /\ th[t].pc = "unset_take"
    /\ ~SlotLocked
    /\ th' = [th EXCEPT ![t].original = VITE_PROCESS, ![t].locked = TRUE,
                        ![t].pc = "unset_unlock"]
    /\ UNCHANGED <<VITE_PROCESS, alive, listening, args, kills, guards, handler, exited, srvVars>>

\* unset_dev_server, line 43: VITE_PROCESS.lock() waits for the slot mutex,
\* and take() empties the slot
unset_take(t) ==
    /\ Running(t)
    /\ th[t].pc = "unset_take"
    /\ ~SlotLocked
    /\ VITE_PROCESS' = NoChild
    /\ th' = [th EXCEPT ![t].original = VITE_PROCESS, ![t].locked = TRUE,
                        ![t].pc = "unset_unlock"]
    /\ UNCHANGED <<alive, listening, args, kills, guards, handler, exited, srvVars>>

\* unset_dev_server, the end of the statement on line 43: the MutexGuard is
\* dropped, which unlocks the slot
unset_unlock(t) ==
    /\ Running(t)
    /\ th[t].pc = "unset_unlock"
    /\ th' = [th EXCEPT ![t].locked = FALSE,
                        ![t].pc = IF th[t].original # NoChild THEN "unset_kill"
                                  ELSE AfterUnset(t)]
    /\ UNCHANGED <<VITE_PROCESS, alive, listening, args, kills, guards, handler, exited, srvVars>>

\* an unset_dev_server that forgets the child it took out of the slot
unset_kill_forget(t) ==
    /\ Running(t)
    /\ th[t].pc = "unset_kill"
    /\ th' = [th EXCEPT ![t].pc = "unset_take", ![t].original = NoChild]
    /\ UNCHANGED <<VITE_PROCESS, alive, listening, args, kills, guards, handler, exited, srvVars>>

\* unset_dev_server, lines 44-52: the child taken out of the slot is killed;
\* the handle process.unwrap() is a temporary, dropped at the end of the
\* statement, and its Drop calls unset_dev_server again
unset_kill(t) ==
    /\ Running(t)
    /\ th[t].pc = "unset_kill"
    /\ KillChild(th[t].original)
    /\ th' = [th EXCEPT ![t].pc = "unset_take", ![t].original = NoChild]
    /\ UNCHANGED <<VITE_PROCESS, args, guards, handler, exited, srvVars>>

\* start_dev_server, lines 136-148: ctrlc::try_set_handler fails when a
\* handler is already set, and the expect panics
start_ctrlc(t) ==
    /\ Running(t)
    /\ th[t].pc = "ctrlc"
    /\ IF th[t].reg /\ handler
         THEN th' = [th EXCEPT ![t] = [IdleThread EXCEPT !.pc = "panic", !.op = "start"]]
              /\ UNCHANGED handler
         ELSE /\ handler' = (handler \/ th[t].reg)
              /\ th' = [th EXCEPT ![t].pc = "ret", ![t].reg = FALSE]
    /\ UNCHANGED <<VITE_PROCESS, alive, listening, args, kills, guards, exited, srvVars>>

\* start_dev_server, line 151: the guard Some(ViteProcess(child.clone())) is
\* handed to the caller
start_return(t) ==
    /\ Running(t)
    /\ th[t].pc = "ret"
    /\ guards' = guards \cup {th[t].child}
    /\ th' = [th EXCEPT ![t] = IdleThread]
    /\ UNCHANGED <<VITE_PROCESS, alive, listening, args, kills, handler, exited, srvVars>>

\* stop_dev_server: calls unset_dev_server
stop_dev_server(t) ==
    /\ Running(t)
    /\ t \in AppThreads
    /\ th[t].pc = "idle"
    /\ th' = [th EXCEPT ![t] = [IdleThread EXCEPT !.pc = "unset_take", !.op = "stop",
                                                   !.seen = VITE_PROCESS]]
    /\ UNCHANGED <<VITE_PROCESS, alive, listening, args, kills, guards, handler, exited, srvVars>>

\* impl Drop for ViteProcess, on a guard the caller owns: calls
\* unset_dev_server
drop(t, g) ==
    /\ Running(t)
    /\ t \in AppThreads
    /\ th[t].pc = "idle"
    /\ g \in guards
    /\ guards' = guards \ {g}
    /\ th' = [th EXCEPT ![t] = [IdleThread EXCEPT !.pc = "unset_take", !.op = "drop",
                                                   !.child = g]]
    /\ UNCHANGED <<VITE_PROCESS, alive, listening, args, kills, handler, exited, srvVars>>

\* the interrupt handler installed by start_dev_server: unset_dev_server(),
\* then std::process::exit(0)
ctrlc_handler ==
    /\ Running(SigThread)
    /\ handler
    /\ th[SigThread].pc = "idle"
    /\ th' = [th EXCEPT ![SigThread] =
                  [IdleThread EXCEPT !.pc = "unset_take", !.op = "sigint"]]
    /\ UNCHANGED <<VITE_PROCESS, alive, listening, args, kills, guards, handler, exited, srvVars>>

ctrlc_exit ==
    /\ Running(SigThread)
    /\ th[SigThread].pc = "exit"
    /\ exited' = TRUE
    /\ UNCHANGED <<VITE_PROCESS, alive, listening, args, kills, guards, handler, th, srvVars>>

\* the launched `vite --strictPort` binds its port once it is up
vite_listen(c) ==
    /\ c \in alive \ listening
    /\ is_port_free(args[c].port)
    /\ listening' = listening \cup {c}
    /\ UNCHANGED <<VITE_PROCESS, alive, args, kills, guards, handler, exited, th, srvVars>>

ThreadStep(t) ==
    \/ \E a \in Addrs, reg \in BOOLEAN : start_check(t, a.host, a.port, reg)
    \/ start_spawn(t)
    \/ set_replace(t)
    \/ set_unlock(t)
    \/ set_kill(t)
    \/ unset_take(t)
    \/ unset_unlock(t)
    \/ unset_kill(t)
    \/ start_ctrlc(t)
    \/ start_return(t)
    \/ stop_dev_server(t)
    \/ \E g \in guards : drop(t, g)

SupNext ==
    \/ \E t \in Threads : ThreadStep(t)
    \/ ctrlc_handler
    \/ ctrlc_exit
    \/ \E c \in alive : vite_listen(c)

\* the steps of a call that wait for nothing: a thread the scheduler runs
\* takes them
ThreadRun(t) ==
    \/ start_spawn(t)
    \/ set_unlock(t)
    \/ set_kill(t)
    \/ unset_unlock(t)
    \/ unset_kill(t)
    \/ start_ctrlc(t)
    \/ start_return(t)
    \/ (t = SigThread /\ ctrlc_exit)

\* the steps that wait for the slot mutex: a thread that finds the mutex free
\* again and again gets it
LockStep(t) == set_replace(t) \/ unset_take(t)

\* one thread calls start_dev_server, stop_dev_server and drops guards, one
\* call after the other
SeqThread == "t1"

SeqNext ==
    \/ ThreadStep(SeqThread)
    \/ \E c \in alive : vite_listen(c)

(***************************************************************************)
(* Strings.  A string is a sequence of the characters below; a character   *)
(* that stands for several bytes stands for that byte sequence, and no     *)
(* character is a prefix of another, so that equality and the byte order   *)
(* of str are those of the sequences.                                      *)
(***************************************************************************)
\* the characters
Alphabet == {".vite", "/", "a", "b", "index.html"}

\* the place of a character in the ascending byte order of the characters
\* ('.' < '/' < 'a' < 'b' < 'i')
Rank(ch) ==
    CASE ch = ".vite" -> 1
      [] ch = "/" -> 2
      [] ch = "a" -> 3
      [] ch = "b" -> 4
      [] ch = "index.html" -> 5

\* Ord for str: x < y
RECURSIVE StrLess(_, _)
StrLess(x, y) ==
    IF x = <<>> THEN y # <<>>
    ELSE IF y = <<>> THEN FALSE
    ELSE IF Head(x) = Head(y) THEN StrLess(Tail(x), Tail(y))
    ELSE Rank(Head(x)) < Rank(Head(y))

\* str::starts_with
starts_with(x, prefix) ==
    Len(x) >= Len(prefix) /\ SubSeq(x, 1, Len(prefix)) = prefix

\* str::trim_start_matches('/')
RECURSIVE trim_start_matches(_)
trim_start_matches(x) ==
    IF x # <<>> /\ Head(x) = "/" THEN trim_start_matches(Tail(x)) ELSE x

\* Option::None
None == [some |-> FALSE]
Some(v) == [some |-> TRUE, v |-> v]

(***************************************************************************)
(* The build output directory and the manifest the bundler writes.         *)
(***************************************************************************)
\* the files a build output directory may hold, relative to it
DiskPaths ==
    { <<"a">>, <<"b">>, <<"index.html">>, <<"a", "/", "index.html">>,
      <<".vite", "/", "b">> }

\* the bytes and the modification time of each file
FileData(p) ==
    CASE p = <<"a">> -> [bytes |-> <<"x">>, mtime |-> Some(<<"Mon">>)]
      [] p = <<"b">> -> [bytes |-> <<"x", "x">>, mtime |-> None]
      [] p = <<"index.html">> -> [bytes |-> <<"y", "z">>, mtime |-> Some(<<"Tue">>)]
      [] p = <<"a", "/", "index.html">> -> [bytes |-> <<"z">>, mtime |-> None]
      [] OTHER -> [bytes |-> <<>>, mtime |-> None]

\* a directory holds no file at a path that is also one of its directories
IsDirTree(files) ==
    \A p \in files, q \in files : ~(p # q /\ starts_with(q, p \o <<"/">>))

\* the orders in which a walk may yield the files of a set
RECURSIVE Walks(_)
Walks(files) ==
    IF files = {} THEN {<<>>}
    ELSE UNION {{<<p>> \o w : w \in Walks(files \ {p})} : p \in files}

ManifestKeys == {<<"a">>, <<"b">>}
ManifestFiles == {<<"b">>, <<"index.html">>}
\* Option<bool>
IsEntryValues == {Some(TRUE), Some(FALSE), None}

\* the manifests: a map from source keys to the produced file and the flag
Manifests ==
    UNION {[keys -> [file : ManifestFiles, isEntry : IsEntryValues]] :
              keys \in SUBSET ManifestKeys}

(***************************************************************************)
(* The manifest indexer (PROD build).                                      *)
(***************************************************************************)
\* FileEntry::match_value: the ViteFile emitted for a file
content_type(p) ==
    IF p[Len(p)] = "index.html" THEN <<"text/html">> ELSE <<"application/octet-stream">>

content_hash(bytes) == <<"#">> \o bytes

ViteFile(p) ==
    [bytes |-> FileData(p).bytes,
     content_type |-> content_type(p),
     content_length |-> Len(FileData(p).bytes),
     content_hash |-> content_hash(FileData(p).bytes),
     last_modified |-> FileData(p).mtime]

\* list_compiled_files: the walk, without the paths that start with ".vite"
list_compiled_files(walk) == SelectSeq(walk, LAMBDA p : ~starts_with(p, <<".vite">>))

\* the least key of a non-empty set of strings
MinKey(keys) == CHOOSE k \in keys : \A o \in keys : o = k \/ StrLess(k, o)

\* a map that yields its pairs in another order than the ascending one (a
\* HashMap in place of the BTreeMap)
RECURSIVE into_iter_unsorted(_)
into_iter_unsorted(m) ==
    IF DOMAIN m = {} THEN <<>>
    ELSE LET k == MinKey(DOMAIN m)
         IN into_iter_unsorted([o \in DOMAIN m \ {k} |-> m[o]]) \o <<<<k, m[k]>>>>

\* BTreeMap::into_iter: the pairs of the map in ascending key order
RECURSIVE into_iter(_)
into_iter(m) ==
    IF DOMAIN m = {} THEN <<>>
    ELSE LET k == MinKey(DOMAIN m)
         IN <<<<k, m[k]>>>> \o into_iter([o \in DOMAIN m \ {k} |-> m[o]])

\* BTreeMap::insert
insert(m, k, v) == [o \in DOMAIN m \cup {k} |-> IF o = k THEN v ELSE m[o]]

\* lines 85-114: match_values, from the files FileEntry::new could read (the
\* flat_map drops the Err results)
RECURSIVE match_values(_, _)
match_values(list, unreadable) ==
    IF list = <<>> THEN <<>>
    ELSE LET rest == match_values(SubSeq(list, 1, Len(list) - 1), unreadable)
             p == list[Len(list)]
         IN IF p \in unreadable THEN rest ELSE insert(rest, p, ViteFile(p))

\* the aliases without the contains_key test of line 128
aliases_unchecked(manifest, literal) ==
    LET keys == {k \in DOMAIN manifest :
                    IF manifest[k].isEntry.some THEN manifest[k].isEntry.v ELSE FALSE}
    IN [k \in keys |-> manifest[k].file]

\* lines 121-131: an alias for every entry point whose key is no literal key
aliases(manifest, literal) ==
    LET keys == {k \in DOMAIN manifest :
                    /\ (IF manifest[k].isEntry.some THEN manifest[k].isEntry.v ELSE FALSE)
                    /\ k \notin DOMAIN literal}
    IN [k \in keys |-> manifest[k].file]

\* generate_rust_code: the tables of the generated impl
generate_rust_code(walk, unreadable, manifest) ==
    LET list == list_compiled_files(walk)
        literal == match_values(list, unreadable)
    IN [ALIASES |-> into_iter(aliases(manifest, literal)),
        ENTRIES |-> into_iter(literal),
        ITEMS |-> list]

(***************************************************************************)
(* The static store: the generated resolve and get.                        *)
(***************************************************************************)
\* slice::binary_search_by_key on the first components: the index, or 0
RECURSIVE binary_search(_, _, _, _)
binary_search(table, key, lo, hi) ==
    IF lo >= hi THEN 0
    ELSE LET mid == lo + ((hi - lo) \div 2)
         IN IF table[mid][1] = key THEN mid
            ELSE IF StrLess(table[mid][1], key)
                 THEN binary_search(table, key, mid + 1, hi)
                 ELSE binary_search(table, key, lo, mid)

binary_search_by_key(table, key) == binary_search(table, key, 1, Len(table) + 1)

\* lines 151-159
resolve(store, path) ==
    LET index == binary_search_by_key(store.ALIASES, path)
    IN IF index # 0 THEN store.ALIASES[index][2] ELSE path

\* lines 161-169
get(store, path) ==
    LET position == binary_search_by_key(store.ENTRIES, resolve(store, path))
    IN IF position # 0 THEN Some(store.ENTRIES[position][2]) ELSE None

(***************************************************************************)
(* The content negotiator: ViteServe::serve.                               *)
(***************************************************************************)
Eager == [tag |-> "Eager"]
Lazy == [tag |-> "Lazy"]
NoCache == [tag |-> "None"]
Custom(header) == [tag |-> "Custom", header |-> header]

CacheStrategies == {Eager, Lazy, NoCache, Custom(<<"public, max-age=60">>)}

\* the values of Eager and Lazy exchanged
cache_control_exchanged(strategy) ==
    CASE strategy.tag = "Eager" -> <<"max-age=0, stale-while-revalidate=604800">>
      [] strategy.tag = "Lazy" -> <<"max-age=0, must-revalidate">>
      [] strategy.tag = "None" -> <<"no-cache">>
      [] strategy.tag = "Custom" -> strategy.header

\* lines 96-110
cache_control(strategy) ==
    CASE strategy.tag = "Eager" -> <<"max-age=0, must-revalidate">>
      [] strategy.tag = "Lazy" -> <<"max-age=0, stale-while-revalidate=604800">>
      [] strategy.tag = "None" -> <<"no-cache">>
      [] strategy.tag = "Custom" -> strategy.header

\* the index fallback tried only when the path itself does not resolve
request_file_path_verbatim_first(store, path) ==
    LET index_candidate == path \o <<"/", "index.html">>
    IN IF path = <<>> THEN <<"index.html">>
       ELSE IF get(store, path).some THEN path
       ELSE IF get(store, index_candidate).some THEN index_candidate
       ELSE path

\* lines 66-73: the path serve resolves, from the stripped path
request_file_path(store, path) ==
    LET index_candidate == path \o <<"/", "index.html">>
    IN IF path = <<>> THEN <<"index.html">>
       ELSE IF get(store, index_candidate).some THEN index_candidate
       ELSE path

\* Response::builder().header(..): the headers in the order they are added
header(headers, name, value) == Append(headers, <<name, value>>)

\* lines 77-114: the headers of a found artifact
found_headers(file, strategy) ==
    LET h1 == header(<<>>, "Content-Type", file.content_type)
        h2 == header(h1, "Content-Length", <<ToString(file.content_length)>>)
        h3 == header(h2, "ETag", file.content_hash)
        h4 == header(h3, "Cache-Control", cache_control(strategy))
    IN IF file.last_modified.some
         THEN header(h4, "Last-Modified", file.last_modified.v)
         ELSE h4

Panic == [kind |-> "panic"]
Response(status, headers, body) ==
    [kind |-> "response", status |-> status, headers |-> headers, body |-> body]

\* a weak comparison of the validators: a W/ prefix of the request's value
\* is ignored
respond_weak(found, strategy, if_none_match) ==
    IF found.some
      THEN LET file == found.v
               etag == file.content_hash
               headers == found_headers(file, strategy)
               sent == IF if_none_match.v.str # <<>> /\ Head(if_none_match.v.str) = "W/"
                         THEN Tail(if_none_match.v.str)
                         ELSE if_none_match.v.str
           IN IF if_none_match.some
                THEN IF ~if_none_match.v.ok THEN Panic
                     ELSE IF etag = sent
                          THEN Response(304, headers, <<>>)
                          ELSE Response(200, headers, file.bytes)
                ELSE Response(200, headers, file.bytes)
      ELSE Response(404, <<>>, <<>>)

\* a 304 built on a fresh builder, without the headers of the artifact
respond_bare_304(found, strategy, if_none_match) ==
    IF found.some
      THEN LET file == found.v
               etag == file.content_hash
               headers == found_headers(file, strategy)
           IN IF if_none_match.some
                THEN IF ~if_none_match.v.ok THEN Panic
                     ELSE IF etag = if_none_match.v.str
                          THEN Response(304, <<>>, <<>>)
                          ELSE Response(200, headers, file.bytes)
                ELSE Response(200, headers, file.bytes)
      ELSE Response(404, <<>>, <<>>)

\* a 404 that carries the Cache-Control header of the strategy
respond_not_found_cached(found, strategy, if_none_match) ==
    IF found.some
      THEN LET file == found.v
               etag == file.content_hash
               headers == found_headers(file, strategy)
           IN IF if_none_match.some
                THEN IF ~if_none_match.v.ok THEN Panic
                     ELSE IF etag = if_none_match.v.str
                          THEN Response(304, headers, <<>>)
                          ELSE Response(200, headers, file.bytes)
                ELSE Response(200, headers, file.bytes)
      ELSE Response(404, header(<<>>, "Cache-Control", cache_control(strategy)), <<>>)

\* an If-None-Match value that cannot be read is treated as an absent one
respond_lenient(found, strategy, if_none_match) ==
    IF found.some
      THEN LET file == found.v
               etag == file.content_hash
               headers == found_headers(file, strategy)
           IN IF if_none_match.some /\ if_none_match.v.ok
                THEN IF etag = if_none_match.v.str
                       THEN Response(304, headers, <<>>)
                       ELSE Response(200, headers, file.bytes)
                ELSE Response(200, headers, file.bytes)
      ELSE Response(404, <<>>, <<>>)

\* lines 75-154: the response for the outcome of the resolution; if_none_match
\* is the request's first If-None-Match value, if any: ok says whether
\* HeaderValue::to_str can read it, str is what it reads
respond(found, strategy, if_none_match) ==
    IF found.some
      THEN LET file == found.v
               etag == file.content_hash
               headers == found_headers(file, strategy)
           IN IF if_none_match.some
                THEN IF ~if_none_match.v.ok THEN Panic
                     ELSE IF etag = if_none_match.v.str
                          THEN Response(304, headers, <<>>)
                          ELSE Response(200, headers, file.bytes)
                ELSE Response(200, headers, file.bytes)
      ELSE Response(404, <<>>, <<>>)

\* ViteServe::serve over the static store: the locals request_file_path and
\* file (the outcome of the resolution), and the response
serve(store, strategy, uri_path, if_none_match) ==
    LET path == trim_start_matches(uri_path)
        chosen == request_file_path(store, path)
        file == get(store, chosen)
    IN [request_file_path |-> chosen, file |-> file,
        result |-> respond(file, strategy, if_none_match)]

(***************************************************************************)
(* The embedded store and the server built on it, as a state machine.      *)
(***************************************************************************)
\* the number of files in the build output directory
MaxFiles == 2

NoCall == [op |-> "none"]

SrvInit ==
    /\ built = FALSE
    /\ output_dir = <<>>
    /\ unreadable_files = {}
    /\ vite_manifest = <<>>
    /\ assets = [ALIASES |-> <<>>, ENTRIES |-> <<>>, ITEMS |-> <<>>]
    \* ViteServe::new, line 44
    /\ cache_strategy = Eager
    /\ call = NoCall
    /\ prev = NoCall

\* the output directories of at most MaxFiles files
Directories ==
    {files \in SUBSET DiskPaths : Cardinality(files) <= MaxFiles /\ IsDirTree(files)}

\* the derive macro runs generate_rust_code on an output directory and its
\* manifest, once
build(w, u, m) ==
    /\ ~built
    /\ built' = TRUE
    /\ output_dir' = w
    /\ unreadable_files' = u
    /\ vite_manifest' = m
    /\ assets' = generate_rust_code(w, u, m)
    /\ UNCHANGED <<cache_strategy, call, prev, supVars>>

\* any directory, walked in any order, at most one file unreadable, and any
\* manifest
build_any ==
    /\ ~built
    /\ \E files \in Directories :
          \E w \in Walks(files), u \in {{}} \cup {{p} : p \in files}, m \in Manifests :
              build(w, u, m)

\* Struct::get(path)
lookup(path) ==
    /\ built
    /\ call' = [op |-> "get", path |-> path, result |-> get(assets, path)]
    /\ UNCHANGED <<built, output_dir, unreadable_files, vite_manifest, assets,
                   cache_strategy, prev, supVars>>

LookupPaths == DiskPaths \cup ManifestKeys \cup {<<>>}

IndexNext ==
    \/ build_any
    \/ \E path \in LookupPaths : lookup(path)

\* the least-first order of a set of strings
RECURSIVE Ascending(_)
Ascending(keys) ==
    IF keys = {} THEN <<>>
    ELSE <<MinKey(keys)>> \o Ascending(keys \ {MinKey(keys)})

\* a directory whose files are all readable and servable, and a manifest of
\* at most one entry
build_readable ==
    /\ ~built
    /\ \E files \in Directories, m \in Manifests :
          /\ \A p \in files : ~starts_with(p, <<".vite">>)
          /\ \A k \in DOMAIN m, o \in DOMAIN m : k = o
          /\ build(Ascending(files), {}, m)

\* ViteServe::with_cache_strategy, when the server is set up
with_cache_strategy(strategy) ==
    /\ call = NoCall
    /\ cache_strategy' = strategy
    /\ UNCHANGED <<built, output_dir, unreadable_files, vite_manifest, assets, call, prev,
                   supVars>>

\* the paths of the request URIs
UriPaths ==
    { <<"/">>, <<"/", "a">>, <<"/", "b">>, <<"/", "index.html">>,
      <<"/", "a", "/", "index.html">>, <<"/", "/", "a">> }

\* a header value: ok says whether HeaderValue::to_str reads it, str is what
\* it reads
Readable(str) == [ok |-> TRUE, str |-> str]
Malformed == [ok |-> FALSE, str |-> <<>>]

\* the double quote character
DQuote == "dquote"

\* the If-None-Match values of the requests: none, an unreadable one, two
\* ETags, and a weak, a quoted and a list form
IfNoneMatchValues ==
    { None, Some(Malformed),
      Some(Readable(content_hash(<<"x">>))),
      Some(Readable(content_hash(<<"y", "z">>))),
      Some(Readable(<<"W/">> \o content_hash(<<"x">>))),
      Some(Readable(<<DQuote>> \o content_hash(<<"y", "z">>) \o <<DQuote>>)),
      Some(Readable(content_hash(<<"x">>) \o <<", ">> \o content_hash(<<"y", "z">>))) }

ServeCall(uri_path, if_none_match) ==
    LET out == serve(assets, cache_strategy, uri_path, if_none_match)
    IN [op |-> "serve", uri_path |-> uri_path, if_none_match |-> if_none_match,
        request_file_path |-> out.request_file_path, file |-> out.file,
        result |-> out.result]

\* ViteServe::serve on a request
serve_request(uri_path, if_none_match) ==
    /\ built
    /\ call' = ServeCall(uri_path, if_none_match)
    /\ prev' = NoCall
    /\ UNCHANGED <<built, output_dir, unreadable_files, vite_manifest, assets,
                   cache_strategy, supVars>>

\* the value of the first header of a name
HeaderValue(headers, name) ==
    LET at == {i \in 1..Len(headers) : headers[i][1] = name}
    IN IF at = {} THEN None
       ELSE Some(headers[CHOOSE i \in at : \A j \in at : i <= j][2])

\* the client repeats a request that was answered 200, with the ETag it
\* received as If-None-Match
revalidate ==
    /\ built
    /\ call.op = "serve"
    /\ call.result.kind = "response"
    /\ call.result.status = 200
    /\ call' = ServeCall(call.uri_path,
                         Some(Readable(HeaderValue(call.result.headers, "ETag").v)))
    /\ prev' = call
    /\ UNCHANGED <<built, output_dir, unreadable_files, vite_manifest, assets,
                   cache_strategy, supVars>>

ServeNext ==
    \/ build_readable
    \/ \E strategy \in CacheStrategies : with_cache_strategy(strategy)
    \/ \E uri_path \in UriPaths, if_none_match \in IfNoneMatchValues :
          serve_request(uri_path, if_none_match)
    \/ revalidate

(***************************************************************************)
(* The live store (DEV build): the generated get fetches from the dev      *)
(* server, and ViteServe::serve runs on it.                                *)
(***************************************************************************)
\* the status codes the dev server answers with
DevStatuses == {200, 404, 500}

\* what one GET to the dev server comes to: send() fails, or a response with
\* its status, the headers it may carry, and its body (None when reading the
\* body fails)
FetchOutcomes ==
    {[kind |-> "error"]} \cup
    [kind : {"response"}, status : DevStatuses,
     content_type : {None, Some(<<"text/html">>)},
     content_length : {None, Some(1)},
     etag : {None, Some(<<"#", "x">>)},
     body : {None, Some(<<"x">>)}]

\* the outcome of a call that panicked, and of one that returned
Panicked == [panic |-> TRUE, file |-> None]
Returned(file) == [panic |-> FALSE, file |-> file]

\* lines 270-275: the URL of the GET for a path
dev_url(path) == <<"http://host:port/">> \o path

\* lines 265-315: the generated get of the DEV build, for the outcome of its
\* GET; hashing says whether the content-hash feature is enabled
live_get(outcome, hashing) ==
    IF outcome.kind = "error" THEN Returned(None)
    ELSE IF outcome.status = 404 THEN Returned(None)
    ELSE IF ~outcome.content_type.some THEN Panicked
    ELSE IF ~outcome.content_length.some THEN Panicked
    ELSE IF hashing /\ ~outcome.etag.some THEN Panicked
    ELSE IF ~outcome.body.some THEN Panicked
    ELSE Returned(Some(
             IF hashing
               THEN [bytes |-> outcome.body.v,
                     content_type |-> outcome.content_type.v,
                     content_length |-> outcome.content_length.v,
                     content_hash |-> outcome.etag.v,
                     last_modified |-> None]
               ELSE [bytes |-> outcome.body.v,
                     content_type |-> outcome.content_type.v,
                     content_length |-> outcome.content_length.v,
                     last_modified |-> None]))

\* the server has no live call in progress
LiveIdle == call.op \in {"live_get", "serve_live"} => call.pc = "done"

\* Struct::get(path) of the DEV build, up to client.get(&url).send()
live_get_send(path, hashing) ==
    /\ LiveIdle
    /\ call' = [op |-> "live_get", pc |-> "sent", path |-> path, hashing |-> hashing,
                requests |-> <<dev_url(path)>>]
    /\ UNCHANGED <<built, output_dir, unreadable_files, vite_manifest, assets,
                   cache_strategy, prev, supVars>>

\* Struct::get(path) of the DEV build, from the outcome of send() on
live_get_receive(outcome) ==
    /\ call.op = "live_get"
    /\ call.pc = "sent"
    /\ call' = [op |-> "live_get", pc |-> "done", path |-> call.path,
                hashing |-> call.hashing, requests |-> call.requests,
                outcome |-> outcome, result |-> live_get(outcome, call.hashing)]
    /\ UNCHANGED <<built, output_dir, unreadable_files, vite_manifest, assets,
                   cache_strategy, prev, supVars>>

\* the paths of the request URIs and the If-None-Match values sent to a
\* server on the live store
LiveUriPaths == {<<"/">>, <<"/", "a">>}
LiveIfNoneMatchValues == {None, Some(Malformed), Some(Readable(<<"#", "x">>))}

\* ViteServe::serve over the live store, lines 59-69: up to the GET of
\* has_asset(index_candidate), or of assets.get("index.html") when the path is
\* empty
serve_live_begin(uri_path, if_none_match) ==
    /\ LiveIdle
    /\ LET path == trim_start_matches(uri_path)
           index_candidate == path \o <<"/", "index.html">>
       IN call' = IF path = <<>>
                    THEN [op |-> "serve_live", pc |-> "get", uri_path |-> uri_path,
                          if_none_match |-> if_none_match,
                          request_file_path |-> <<"index.html">>,
                          requests |-> <<dev_url(<<"index.html">>)>>]
                    ELSE [op |-> "serve_live", pc |-> "probe", uri_path |-> uri_path,
                          if_none_match |-> if_none_match,
                          request_file_path |-> index_candidate,
                          requests |-> <<dev_url(index_candidate)>>]
    /\ UNCHANGED <<built, output_dir, unreadable_files, vite_manifest, assets,
                   cache_strategy, prev, supVars>>

\* lines 69-75: has_asset returns for the outcome of its GET, the path is
\* chosen and assets.get(request_file_path) sends its own GET
serve_live_probed(outcome) ==
    /\ call.op = "serve_live"
    /\ call.pc = "probe"
    /\ LET has_asset == live_get(outcome, TRUE)
           chosen == IF has_asset.file.some THEN call.request_file_path
                     ELSE trim_start_matches(call.uri_path)
       IN call' = IF has_asset.panic
                    THEN [op |-> "serve_live", pc |-> "done", uri_path |-> call.uri_path,
                          if_none_match |-> call.if_none_match,
                          request_file_path |-> call.request_file_path,
                          requests |-> call.requests, probe |-> outcome,
                          panicked |-> "has_asset", file |-> None, result |-> Panic]
                    ELSE [op |-> "serve_live", pc |-> "get", uri_path |-> call.uri_path,
                          if_none_match |-> call.if_none_match,
                          request_file_path |-> chosen,
                          requests |-> Append(call.requests, dev_url(chosen)),
                          probe |-> outcome]
    /\ UNCHANGED <<built, output_dir, unreadable_files, vite_manifest, assets,
                   cache_strategy, prev, supVars>>

\* lines 75-154: assets.get(request_file_path) returns for the outcome of its
\* GET and the response is built; ViteFile.content_hash is read, so the
\* content-hash feature is enabled
serve_live_respond(outcome) ==
    /\ call.op = "serve_live"
    /\ call.pc = "get"
    /\ LET found == live_get(outcome, TRUE)
       IN call' = [final |-> outcome,
                   panicked |-> IF found.panic THEN "get" ELSE "no",
                   file |-> found.file,
                   result |-> IF found.panic THEN Panic
                              ELSE respond(found.file, cache_strategy, call.if_none_match)]
                  @@ [call EXCEPT !.pc = "done"]
    /\ UNCHANGED <<built, output_dir, unreadable_files, vite_manifest, assets,
                   cache_strategy, prev, supVars>>

LiveNext ==
    \/ \E strategy \in CacheStrategies : with_cache_strategy(strategy)
    \/ \E path \in LookupPaths, hashing \in BOOLEAN : live_get_send(path, hashing)
    \/ \E outcome \in FetchOutcomes : live_get_receive(outcome)
    \/ \E uri_path \in LiveUriPaths, if_none_match \in LiveIfNoneMatchValues :
          serve_live_begin(uri_path, if_none_match)
    \/ \E outcome \in FetchOutcomes : serve_live_probed(outcome)
    \/ \E outcome \in FetchOutcomes : serve_live_respond(outcome)

vars == <<supVars, srvVars>>

Init == SupInit /\ SrvInit
Next == SupNext
Spec == Init /\ [][Next]_vars
SpecSeq == Init /\ [][SeqNext]_vars
\* the calls of the fair runs all name one address
FairAddr == [host |-> "localhost", port |-> 5173]
FairThreadStep(t) ==
    \/ \E reg \in BOOLEAN : start_check(t, FairAddr.host, FairAddr.port, reg)
    \/ start_spawn(t)
    \/ set_replace(t)
    \/ set_unlock(t)
    \/ set_kill(t)
    \/ unset_take(t)
    \/ unset_unlock(t)
    \/ unset_kill(t)
    \/ start_ctrlc(t)
    \/ start_return(t)
    \/ stop_dev_server(t)
    \/ \E g \in guards : drop(t, g)

FairNext ==
    \/ \E t \in Threads : FairThreadStep(t)
    \/ ctrlc_handler
    \/ ctrlc_exit
    \/ \E c \in alive : vite_listen(c)
SpecFair ==
    /\ Init
    /\ [][FairNext]_vars
    /\ \A t \in Threads : WF_vars(ThreadRun(t)) /\ SF_vars(LockStep(t))
SpecIndex == Init /\ [][IndexNext]_vars
SpecServe == Init /\ [][ServeNext]_vars
SpecLive == Init /\ [][LiveNext]_vars

(***************************************************************************)
(* Claims about the dev process supervisor.                                *)
(***************************************************************************)

\* C1: when a start_dev_server call that found a handle registered at its
\* beginning returns, exactly one dev process is alive, it is the one this
\* call launched, bound to this call's host:port, and the process that was
\* registered is terminated.
C1_SecondStartLeavesItsProcess ==
    \A t \in AppThreads :
        (th[t].pc = "ret" /\ th[t].seen # NoChild) =>
            /\ alive = {th[t].child}
            /\ args[th[t].child] = th[t].addr
            /\ th[t].seen \notin alive

\* C2: at most one launched dev process is alive in every reachable state.
C2_AtMostOneAlive == Cardinality(alive) <= 1

\* C10: when the drop of a guard completes, the child process that guard
\* wraps is no longer alive.
C10_DropTerminatesWrapped ==
    [][\A t \in AppThreads :
          (th[t].op = "drop" /\ th'[t].pc = "idle") => th[t].child \notin alive']_vars

C12_BusyPortNoEffect ==
    [][\A t \in AppThreads :
          (th[t].pc = "idle" /\ th'[t].op = "start") =>
              IF \E c \in listening : args[c].port = th'[t].addr.port
                THEN /\ th'[t].pc = "panic"
                     /\ UNCHANGED <<VITE_PROCESS, alive, listening, args, kills, guards,
                                    handler, exited>>
                ELSE th'[t].pc = "spawn"]_vars

\* a start was refused on a port held by the registered, running process
C12_Witness ==
    \E t \in AppThreads :
        /\ th[t].pc = "panic"
        /\ th[t].addr # NoAddr
        /\ VITE_PROCESS \in listening
        /\ args[VITE_PROCESS].port = th[t].addr.port
        /\ Len(args) = 1

\* C19: once set_dev_server has released the slot lock with the new handle
\* registered, the process it displaced is not alive: no state shows the new
\* handle in the slot while the displaced process still runs.
C19_DisplacedDeadAtUnlock ==
    \A t \in Threads :
        (th[t].pc = "set_kill" /\ VITE_PROCESS = th[t].child) =>
            th[t].original \notin alive

C22_KilledAtMostOnce == \A c \in Children : kills[c] <= 1

\* both launched processes have been killed, one by a guard's drop and one
\* by the interrupt handler, and a drop of a guard whose child is already
\* killed has found the slot empty
C22_Witness ==
    /\ Len(kills) = 2
    /\ \A c \in Children : kills[c] = 1
    /\ \E t \in AppThreads :
           /\ th[t].op = "drop"
           /\ th[t].pc = "unset_unlock"
           /\ th[t].original = NoChild
           /\ kills[th[t].child] = 1

\* C20: the drop of a handle terminates no running process other than the
\* one the handle wraps.  The drop of a guard kills at most the guard's child;
\* the drop of the temporary handle inside set_dev_server, which wraps the
\* displaced child already killed, terminates nothing, so that a process
\* registered by a later start stays alive and registered.
C20_DropKillsOnlyWrapped ==
    [][\A t \in AppThreads :
          (th[t].pc = "unset_kill" /\ th'[t].pc # "unset_kill"
              /\ th[t].original \in alive) =>
              /\ th[t].op = "drop" => th[t].original = th[t].child
              /\ th[t].op # "start"]_vars

(***************************************************************************)
(* Claims about the static store and the indexer (SpecIndex).              *)
(***************************************************************************)
\* the keys of the two generated tables, and the artifact a table row holds
LiteralKeys == {assets.ENTRIES[i][1] : i \in 1..Len(assets.ENTRIES)}
AliasKeys == {assets.ALIASES[i][1] : i \in 1..Len(assets.ALIASES)}
Registered(p) == assets.ENTRIES[CHOOSE i \in 1..Len(assets.ENTRIES) : assets.ENTRIES[i][1] = p][2]

\* the manifest's entry points
IsEntryPoint(k) ==
    /\ k \in DOMAIN vite_manifest
    /\ vite_manifest[k].isEntry = Some(TRUE)

\* C6: get(p) returns exactly the artifact registered for p when p is a key
\* of the literal table, and nothing when p is a key of neither table.
C6_LiteralLookup ==
    call.op = "get" =>
        /\ call.path \in LiteralKeys => call.result = Some(Registered(call.path))
        /\ call.path \notin LiteralKeys \cup AliasKeys => call.result = None

C6_Witness ==
    /\ call.op = "get"
    /\ Len(assets.ENTRIES) >= 2
    /\ call.path = assets.ENTRIES[2][1]
    /\ call.result = Some(ViteFile(call.path))

\* C7: for every manifest entry flagged isEntry whose source key k is no
\* literal key, get(k) returns the same artifact as get(file) for the entry's
\* produced file; the source key of an entry that is not flagged resolves to
\* nothing unless it is a literal key.
C7_AliasLookup ==
    built =>
        \A k \in DOMAIN vite_manifest :
            /\ (IsEntryPoint(k) /\ k \notin LiteralKeys) =>
                   get(assets, k) = get(assets, vite_manifest[k].file)
            /\ (~IsEntryPoint(k) /\ k \notin LiteralKeys) => get(assets, k) = None

\* C8: the alias keys and the literal keys are disjoint, and get(p) returns
\* the literal artifact registered for p when p is a literal key and the
\* source key of a manifest entry point.
C8_LiteralPrecedence ==
    /\ AliasKeys \cap LiteralKeys = {}
    /\ (call.op = "get" /\ call.path \in LiteralKeys /\ IsEntryPoint(call.path)) =>
           call.result = Some(Registered(call.path))

C8_Witness ==
    /\ call.op = "get"
    /\ call.path \in LiteralKeys
    /\ IsEntryPoint(call.path)
    /\ vite_manifest[call.path].file \in LiteralKeys \ {call.path}
    /\ call.result = Some(ViteFile(call.path))

\* C9: resolve(resolve(p)) = resolve(p) for every path p: the target of an
\* alias is never the key of another alias.
C9_ResolveIdempotent ==
    built =>
        \A p \in LookupPaths : resolve(assets, resolve(assets, p)) = resolve(assets, p)

(***************************************************************************)
(* Claims about the content negotiator (SpecServe).                        *)
(***************************************************************************)
\* the last call is a serve call whose resolution yielded an artifact
ServedFound == call.op = "serve" /\ call.file.some

\* the request of the last call carries an If-None-Match value equal to the
\* artifact's ETag
SentETag ==
    /\ call.if_none_match.some
    /\ call.if_none_match.v.ok
    /\ call.if_none_match.v.str = call.file.v.content_hash

\* C3, as stated: whenever the resolved path yields an artifact, serve
\* responds 304 with an empty body if the request carries an If-None-Match
\* value equal to the artifact's ETag, and in every other case 200 with the
\* artifact's bytes.
C3_Conditional ==
    ServedFound =>
        /\ call.result.kind = "response"
        /\ IF SentETag
             THEN call.result.status = 304 /\ call.result.body = <<>>
             ELSE call.result.status = 200 /\ call.result.body = call.file.v.bytes

\* C3, amended: the same for the requests whose If-None-Match value, if any,
\* can be read as a string; a request whose value cannot be read gets no
\* response.
C3_ConditionalReadable ==
    ServedFound =>
        IF call.if_none_match.some /\ ~call.if_none_match.v.ok
          THEN call.result = Panic
          ELSE /\ call.result.kind = "response"
               /\ IF SentETag
                    THEN call.result.status = 304 /\ call.result.body = <<>>
                    ELSE call.result.status = 200 /\ call.result.body = call.file.v.bytes

\* a weak form of the artifact's own ETag is sent and answered 200
C3_Witness ==
    /\ ServedFound
    /\ call.if_none_match.some
    /\ call.if_none_match.v.ok
    /\ call.if_none_match.v.str = <<"W/">> \o call.file.v.content_hash
    /\ call.result.kind = "response"
    /\ call.result.status = 200
    /\ call.result.body = call.file.v.bytes

CacheHeaders == {"Content-Type", "Cache-Control", "ETag", "Last-Modified"}

\* C4: the request that sends the ETag of a 200 response back as
\* If-None-Match resolves to the same ETag and receives a 304 with an empty
\* body whose Content-Type, Cache-Control, ETag and Last-Modified headers are
\* those of the 200 response.
C4_ETagRoundTrip ==
    prev.op = "serve" =>
        /\ call.result.kind = "response"
        /\ call.result.status = 304
        /\ call.result.body = <<>>
        /\ call.file.some
        /\ Some(call.file.v.content_hash) = HeaderValue(prev.result.headers, "ETag")
        /\ \A name \in CacheHeaders :
               HeaderValue(call.result.headers, name) = HeaderValue(prev.result.headers, name)

C4_Witness ==
    /\ prev.op = "serve"
    /\ prev.result.status = 200
    /\ prev.result.body # <<>>
    /\ call.result.status = 304
    /\ HeaderValue(call.result.headers, "Last-Modified").some
    /\ HeaderValue(call.result.headers, "ETag") = Some(call.if_none_match.v.str)

\* C5: serve resolves "index.html" for an empty stripped path, "d/index.html"
\* for a non-empty stripped path d when the store resolves it, also when d
\* resolves too, and d verbatim otherwise.
C5_IndexFallback ==
    call.op = "serve" =>
        LET d == trim_start_matches(call.uri_path)
            index == d \o <<"/", "index.html">>
        IN /\ d = <<>> => call.file = get(assets, <<"index.html">>)
           /\ (d # <<>> /\ get(assets, index).some) => call.file = get(assets, index)
           /\ (d # <<>> /\ ~get(assets, index).some) => call.file = get(assets, d)
           /\ (call.result.kind = "response" /\ call.result.status = 200) =>
                  call.file.some /\ call.result.body = call.file.v.bytes
           /\ (call.result.kind = "response" /\ call.result.status = 404) =>
                  ~call.file.some

\* d and d/index.html both resolve, to different artifacts
C5_Witness ==
    /\ call.op = "serve"
    /\ call.uri_path = <<"/", "a">>
    /\ get(assets, <<"a">>).some
    /\ get(assets, <<"a", "/", "index.html">>).some
    /\ call.file = get(assets, <<"a", "/", "index.html">>)
    /\ call.file # get(assets, <<"a">>)
    /\ call.result.kind = "response"
    /\ call.result.status = 200
    /\ call.result.body = FileData(<<"a", "/", "index.html">>).bytes

\* the headers a response of a found artifact may carry
FoundHeaders ==
    {"Content-Type", "Content-Length", "ETag", "Cache-Control", "Last-Modified"}

\* the request of the last call carries an If-None-Match value that cannot
\* be read as a string
SentMalformed == call.if_none_match.some /\ ~call.if_none_match.v.ok

\* C13: when the resolution of the chosen path yields nothing, serve responds
\* 404 with an empty body and none of the headers of a found artifact,
\* whatever the strategy and the If-None-Match value; every response of serve
\* has status 200, 304 or 404.
C13_NotFound ==
    call.op = "serve" =>
        /\ ~call.file.some =>
               /\ call.result.kind = "response"
               /\ call.result.status = 404
               /\ call.result.body = <<>>
               /\ \A name \in FoundHeaders : HeaderValue(call.result.headers, name) = None
        /\ call.result.kind = "response" => call.result.status \in {200, 304, 404}

\* a path that does not resolve, asked with an unreadable If-None-Match value
\* under a Custom strategy, is answered 404
C13_Witness ==
    /\ call.op = "serve"
    /\ ~call.file.some
    /\ SentMalformed
    /\ cache_strategy.tag = "Custom"
    /\ call.result.kind = "response"
    /\ call.result.status = 404
    /\ call.result.headers = <<>>

\* C14, as stated: every request that carries an If-None-Match value that
\* cannot be read as a string makes serve fail instead of returning a
\* response, whether or not the path resolves.
C14_MalformedFatal ==
    (call.op = "serve" /\ SentMalformed) => call.result = Panic

\* C14, amended: such a request makes serve fail when the chosen path resolves
\* to an artifact; when it does not resolve the header is not read and serve
\* responds 404.
C14_MalformedFatalWhenFound ==
    (call.op = "serve" /\ SentMalformed) =>
        IF call.file.some
          THEN call.result = Panic
          ELSE call.result.kind = "response" /\ call.result.status = 404

\* an unreadable If-None-Match value on a path that resolves: no response
C14_Witness ==
    /\ call.op = "serve"
    /\ SentMalformed
    /\ call.file.some
    /\ call.result = Panic

Enumerated == {output_dir[i] : i \in {j \in 1..Len(output_dir) :
                                          ~starts_with(output_dir[j], <<".vite">>)}}

\* the paths iter() lists
Listed == {assets.ITEMS[i] : i \in 1..Len(assets.ITEMS)}

\* C15: when generation has succeeded every enumerated file is a key of the
\* literal table and is listed by iter(); no enumerated file was unreadable.
C15_CompleteIndex ==
    built =>
        /\ \A p \in Enumerated : p \in LiteralKeys /\ p \in Listed
        /\ Enumerated \cap unreadable_files = {}

\* C16: when generation has succeeded the target of every alias is a key of
\* the literal table, and get on an alias key returns an artifact.
C16_AliasTargetsExist ==
    built =>
        \A i \in 1..Len(assets.ALIASES) :
            /\ assets.ALIASES[i][2] \in LiteralKeys
            /\ get(assets, assets.ALIASES[i][1]).some

(***************************************************************************)
(* Claims about the live store (SpecLive).                                 *)
(***************************************************************************)
\* the outcome of a GET is "not found" material: send() failed or the
\* status is 404
Absent(outcome) == outcome.kind = "error" \/ outcome.status = 404

\* C17: a get of the live store sends exactly one GET; a transport failure
\* and a 404 response both yield "not found", which serve answers with 404;
\* every non-404 response that carries Content-Type and Content-Length
\* becomes an artifact without last_modified.
C17_LiveAbsence ==
    /\ (call.op = "live_get" /\ call.pc = "done") =>
           /\ Len(call.requests) = 1
           /\ Absent(call.outcome) => call.result = Returned(None)
           /\ (/\ ~Absent(call.outcome)
               /\ call.outcome.content_type.some
               /\ call.outcome.content_length.some) =>
                  /\ ~call.result.panic
                  /\ call.result.file.some
                  /\ call.result.file.v.last_modified = None
    /\ (call.op = "serve_live" /\ call.pc = "done" /\ call.panicked # "has_asset") =>
           (Absent(call.final) =>
               call.result.kind = "response" /\ call.result.status = 404)
\* the has_asset probe of a serve call over the live store found
\* "<path>/index.html"
ProbeFound ==
    /\ call.op = "serve_live"
    /\ trim_start_matches(call.uri_path) # <<>>
    /\ call.pc \in {"get", "done"}
    /\ ~live_get(call.probe, TRUE).panic
    /\ live_get(call.probe, TRUE).file.some

\* C23: when the probe of serve found "<path>/index.html", the second
\* resolution asks for that path and the response is a 200 or a 304, never a
\* 404, whatever the dev server answers to the second GET.
C23_ProbeConsistent ==
    (ProbeFound /\ call.pc = "done") =>
        /\ call.request_file_path = trim_start_matches(call.uri_path) \o <<"/", "index.html">>
        /\ call.result.kind = "response" => call.result.status \in {200, 304}

====
